---------------------------- MODULE Spec2Model ----------------------------
(***************************************************************************)
(* Clinic-management backend (server.js and its hardened variant).         *)
(*                                                                         *)
(* The collections are the JSON files the handlers read and rewrite whole: *)
(* funcionarios.json, medicos.json, usuarios.json, animais.json.  A JSON   *)
(* object is a function from key names to values; a JSON string is a TLA+  *)
(* string, JSON null is NULL and a JavaScript undefined is UNDEF (a key    *)
(* holding UNDEF is dropped by JSON.stringify, see Stringify).             *)
(*                                                                         *)
(* Every handler is one atomic action (requests are served one at a time)  *)
(* and every file read succeeds; the outcome of fs.writeFile is an input   *)
(* of each mutating handler (wok).                                         *)
(***************************************************************************)
EXTENDS Integers, Sequences, FiniteSets, TLC

VARIABLES funcionarios, medicos, usuarios, animais, now, resp, logged, hist,
          inflight

vars == <<funcionarios, medicos, usuarios, animais, now, resp, logged, hist, inflight>>

(***************************************************************************)
(* Bounds of the model.                                                    *)
(***************************************************************************)
MaxStaff == 2
MaxStaffDel == 3
MaxTutor == 2
MaxVet == 2
MaxPets == 1
MaxClock == 2

(***************************************************************************)
(* JavaScript values.                                                      *)
(***************************************************************************)
NULL == "null"
UNDEF == "undefined"

\* !v for the values the model uses: '', null and undefined are falsy.
Falsy(v) == v \in {"", NULL, UNDEF}
Truthy(v) == ~Falsy(v)

\* o[k], undefined when the object has no such key.
Get(o, k) == IF k \in DOMAIN o THEN o[k] ELSE UNDEF

EmptyObj == [k \in {} |-> UNDEF]

\* { ...a, ...b }
Spread(a, b) ==
    [k \in (DOMAIN a) \cup (DOMAIN b) |-> IF k \in DOMAIN b THEN b[k] ELSE a[k]]

\* delete o[k]
Delete(o, k) == [x \in (DOMAIN o) \ {k} |-> o[x]]

\* The keys that hold an object (or NULLOBJ), never a string or undefined.
ObjectKeys == {"anamnese", "exames", "consultas"}

\* JSON.stringify followed by JSON.parse: keys holding undefined are dropped.
Stringify(o) ==
    [k \in {x \in DOMAIN o : x \in ObjectKeys \/ o[x] # UNDEF} |-> o[k]]

StringifyAll(list) == [i \in DOMAIN list |-> Stringify(list[i])]

\* A findIndex that answers the first index when nothing matches.
FindIndexOrFirst(list, key, v) ==
    IF \E i \in DOMAIN list : Get(list[i], key) = v
    THEN CHOOSE i \in DOMAIN list :
            /\ Get(list[i], key) = v
            /\ \A j \in 1..(i - 1) : Get(list[j], key) # v
    ELSE IF list = <<>> THEN 0 ELSE 1

\* list.findIndex(x => x[key] == v), 1-based; 0 stands for -1.
FindIndex(list, key, v) ==
    IF \E i \in DOMAIN list : Get(list[i], key) = v
    THEN CHOOSE i \in DOMAIN list :
            /\ Get(list[i], key) = v
            /\ \A j \in 1..(i - 1) : Get(list[j], key) # v
    ELSE 0

\* list.pop() in place of list.splice(idx, 1): the last element goes.
SplicePop(list, idx) == SubSeq(list, 1, Len(list) - 1)

\* list.splice(idx, 1)
Splice(list, idx) ==
    [i \in 1..(Len(list) - 1) |-> IF i < idx THEN list[i] ELSE list[i + 1]]

\* readJSON: the parsed content of the file.
readJSON(file) == file

\* A write that replaces the file even when it reports a failure.
writeJSONTorn(file, data, ok) == StringifyAll(data)

\* writeJSON: what the file holds afterwards; the handler sees ok as the result.
writeJSON(file, data, ok) == IF ok THEN StringifyAll(data) ELSE file

\* res.json(...)
Response(op, success, message, body) ==
    [op |-> op, success |-> success, message |-> message,
     body |-> StringifyAll(body)]

(***************************************************************************)
(* Staff (funcionarios.json).  A record holds id, nome, login, contato,    *)
(* senha, role and crmv; dataCadastro is written once and never read, and  *)
(* is left out.  "Recepcao" and "Internacao" stand for 'Recepção' and      *)
(* 'Internação'.                                                           *)
(***************************************************************************)
Estagiario == "Estagiario"
VetJunior == "Vet junior"
MedicoVet == "Medico vet"
Recepcao == "Recepcao"
Internacao == "Internacao"

\* Date.now(): the id of a new record, as its decimal numeral (a route's :id
\* is a string, and p.id == id compares the two as numbers).
DateNow == ToString(now)

\* POST /api/cadastrar-funcionario: the record built from the request.
NovoFuncionario(body) ==
    [id |-> DateNow,
     nome |-> Get(body, "nome"),
     login |-> Get(body, "login"),
     contato |-> Get(body, "contato"),
     senha |-> Get(body, "senha"),
     role |-> Get(body, "role"),
     crmv |-> IF Truthy(Get(body, "crmv")) THEN Get(body, "crmv") ELSE NULL]

\* Estagiario may not be created with a CRMV.
EstagiarioComCrmv(body) ==
    Get(body, "role") = Estagiario /\ Truthy(Get(body, "crmv"))

\* What a response shows of a new staff record: { ...novo, senha: undefined }.
SafeNovo(novo) == Spread(novo, [senha |-> UNDEF])

CadastrarFuncionario(body, wok) ==
    LET op == "cadastrar-funcionario"
        lista == readJSON(funcionarios)
        novo == NovoFuncionario(body)
    IN  /\ UNCHANGED <<medicos, usuarios, animais, now, logged, inflight>>
        /\ IF \/ Falsy(Get(body, "nome")) \/ Falsy(Get(body, "login"))
              \/ Falsy(Get(body, "contato")) \/ Falsy(Get(body, "senha"))
           THEN /\ resp' = Response(op, FALSE, "Campos obrigatorios ausentes", <<>>)
                /\ UNCHANGED <<funcionarios, hist, inflight>>
           ELSE IF FindIndex(lista, "login", Get(body, "login")) # 0
           THEN /\ resp' = Response(op, FALSE, "Login ja cadastrado", <<>>)
                /\ UNCHANGED <<funcionarios, hist, inflight>>
           ELSE IF EstagiarioComCrmv(body)
           THEN /\ resp' = Response(op, FALSE, "Estagiario nao pode ter CRMV.", <<>>)
                /\ UNCHANGED <<funcionarios, hist, inflight>>
           ELSE /\ funcionarios' = writeJSON(funcionarios, Append(lista, novo), wok)
                /\ hist' = IF wok
                           THEN Append(hist, [estagiario |-> Get(novo, "role") = Estagiario,
                                              wasVetJunior |-> Get(novo, "role") = VetJunior])
                           ELSE hist
                /\ resp' = IF wok
                           THEN Response(op, TRUE, "Funcionario cadastrado com sucesso",
                                         <<SafeNovo(novo)>>)
                           ELSE Response(op, FALSE, "Erro ao salvar funcionario", <<>>)

\* GET /api/funcionarios: the fields listed, never senha.
SafeListado(f) ==
    [id |-> Get(f, "id"), nome |-> Get(f, "nome"), login |-> Get(f, "login"),
     contato |-> Get(f, "contato"), role |-> Get(f, "role"), crmv |-> Get(f, "crmv")]

ListarFuncionarios ==
    LET lista == readJSON(funcionarios)
    IN  /\ resp' = Response("listar-funcionarios", TRUE, "",
                            [i \in DOMAIN lista |-> SafeListado(lista[i])])
        /\ UNCHANGED <<funcionarios, medicos, usuarios, animais, now, logged, hist, inflight>>

\* PUT /api/funcionarios/:id, the server-side role-change validation: the
\* message of the refusal, or "" when the update goes on.
RoleChangeRefusal(current, updateData) ==
    LET from == Get(current, "role")
        to == Get(updateData, "role")
    IN  IF Truthy(to) /\ to # from
        THEN IF from = MedicoVet
             THEN "Usuario Veterinario nao pode ser alterado."
             ELSE IF (from = Recepcao \/ from = Internacao) /\ to # from
             THEN "Funcionarios de Recepcao ou Internacao nao podem alterar o cargo."
             ELSE IF from = Estagiario /\ to # VetJunior
             THEN "Estagiario so pode mudar para Vet junior."
             ELSE IF from = VetJunior /\ to # MedicoVet
             THEN "Vet junior so pode mudar para Medico vet."
             ELSE ""
        ELSE ""

\* The crmv of the request is dropped when the record is an Estagiario that
\* is not being promoted to a vet role.
StripCrmv(current, updateData) ==
    IF Get(current, "role") = Estagiario
    THEN LET targetRole == IF Truthy(Get(updateData, "role"))
                           THEN Get(updateData, "role")
                           ELSE Get(current, "role")
         IN  IF ~(targetRole = VetJunior \/ targetRole = MedicoVet)
             THEN Delete(updateData, "crmv")
             ELSE updateData
    ELSE updateData

\* The keys of the request that are applied: all but id and dataCadastro.
Allowed(updateData) == Delete(Delete(updateData, "id"), "dataCadastro")

\* What a response shows of an updated staff record: the record without senha.
SafeAtualizado(f) == Delete(f, "senha")

AtualizarFuncionario(id, updateData, wok) ==
    LET op == "atualizar-funcionario"
        lista == readJSON(funcionarios)
        idx == FindIndex(lista, "id", id)
    IN  /\ UNCHANGED <<medicos, usuarios, animais, now, logged, inflight>>
        /\ IF idx = 0
           THEN /\ resp' = Response(op, FALSE, "Funcionario nao encontrado", <<>>)
                /\ UNCHANGED <<funcionarios, hist, inflight>>
           ELSE LET current == lista[idx]
                    refusal == RoleChangeRefusal(current, updateData)
                    merged == Spread(current, Allowed(StripCrmv(current, updateData)))
                IN  IF refusal # ""
                    THEN /\ resp' = Response(op, FALSE, refusal, <<>>)
                         /\ UNCHANGED <<funcionarios, hist, inflight>>
                    ELSE /\ funcionarios' =
                                writeJSON(funcionarios, [lista EXCEPT ![idx] = merged], wok)
                         /\ hist' = IF wok /\ Get(merged, "role") = VetJunior
                                    THEN [hist EXCEPT ![idx].wasVetJunior = TRUE]
                                    ELSE hist
                         /\ resp' = IF wok
                                    THEN Response(op, TRUE, "Funcionario atualizado com sucesso",
                                                  <<SafeAtualizado(merged)>>)
                                    ELSE Response(op, FALSE, "Erro ao salvar funcionario", <<>>)

\* DELETE /api/funcionarios/:id
DeletarFuncionario(id, wok) ==
    LET op == "deletar-funcionario"
        lista == readJSON(funcionarios)
        idx == FindIndex(lista, "id", id)
    IN  /\ UNCHANGED <<medicos, usuarios, animais, now, logged, inflight>>
        /\ IF idx = 0
           THEN /\ resp' = Response(op, FALSE, "Funcionario nao encontrado", <<>>)
                /\ UNCHANGED <<funcionarios, hist, inflight>>
           ELSE IF Get(lista[idx], "role") = MedicoVet
           THEN /\ resp' = Response(op, FALSE,
                                    "Nao e permitido excluir usuario Veterinario.", <<>>)
                /\ UNCHANGED <<funcionarios, hist, inflight>>
           ELSE /\ funcionarios' = writeJSON(funcionarios, Splice(lista, idx), wok)
                /\ hist' = IF wok THEN Splice(hist, idx) ELSE hist
                /\ resp' = IF wok
                           THEN Response(op, TRUE, "Funcionario excluido com sucesso", <<>>)
                           ELSE Response(op, FALSE, "Erro ao excluir funcionario", <<>>)

\* Time passes between two requests.
Tick ==
    /\ now < MaxClock
    /\ now' = now + 1
    /\ UNCHANGED <<funcionarios, medicos, usuarios, animais, resp, logged, hist, inflight>>

(***************************************************************************)
(* Requests.  An optional key is either left out of the body or given one  *)
(* of the listed values.                                                   *)
(***************************************************************************)
Logins == {"ana", "bia"}
StaffRoles == {Estagiario, VetJunior, MedicoVet, Recepcao, Internacao}

\* The ids a request may name: those Date.now() has produced so far.
Ids == {ToString(t) : t \in 1..now}

\* Registrations: every role, with or without a CRMV, and one with no senha.
StaffCreateBodies ==
    {[nome |-> "Ana", contato |-> "11999990000", login |-> l, senha |-> "s3nh4",
      role |-> r] : l \in Logins, r \in StaffRoles}
    \cup {[nome |-> "Ana", contato |-> "11999990000", login |-> l, senha |-> "s3nh4",
           role |-> r, crmv |-> "CRMV1"] : l \in Logins, r \in StaffRoles}
    \cup {[nome |-> "Ana", contato |-> "11999990000", login |-> "ana"]}

\* Updates of the role (absent, empty, null or one of the five), some with a
\* CRMV; one update also names id and dataCadastro.
StaffUpdateBodies ==
    {[role |-> r] : r \in StaffRoles \cup {"", NULL}}
    \cup {[role |-> r, crmv |-> "CRMV1"] : r \in {Estagiario, VetJunior, ""}}
    \cup {EmptyObj, [crmv |-> "CRMV1"],
          [id |-> "9", dataCadastro |-> "2020", role |-> VetJunior]}

\* The requests that are between their read and their write: the clients of
\* the server, each with at most one request in flight.
Clients == {"c1", "c2"}

Idle ==
    [pc |-> "idle", op |-> "", id |-> "", body |-> EmptyObj, data |-> <<>>,
     success |-> FALSE]

NoRequests == [c \in Clients |-> Idle]

Init ==
    /\ funcionarios = <<>>
    /\ medicos = <<>>
    /\ usuarios = <<>>
    /\ animais = <<>>
    /\ now = 1
    /\ resp = Response("", FALSE, "", <<>>)
    /\ logged = ""
    /\ hist = <<>>
    /\ inflight = NoRequests

\* Staff management: registration, listing, update and deletion.
Next ==
    \/ \E body \in StaffCreateBodies, wok \in BOOLEAN :
          Len(funcionarios) < MaxStaff /\ CadastrarFuncionario(body, wok)
    \/ ListarFuncionarios
    \/ \E id \in Ids, body \in StaffUpdateBodies, wok \in BOOLEAN :
          AtualizarFuncionario(id, body, wok)
    \/ \E id \in Ids, wok \in BOOLEAN : DeletarFuncionario(id, wok)
    \/ Tick

Spec == Init /\ [][Next]_vars

(***************************************************************************)
(* Claims about the staff role rules, under Spec.                          *)
(***************************************************************************)
RoleOf(f) == Get(f, "role")

\* The step is the handling of a PUT /api/funcionarios/:id.
IsAtualizar == resp'.op = "atualizar-funcionario"

\* C2: a staff record whose role is 'Medico vet' keeps that role through
\* every PUT /api/funcionarios/:id, whatever the body.
C2_MedicoVetKeepsRole ==
    [][IsAtualizar =>
          \A i \in DOMAIN funcionarios :
              RoleOf(funcionarios[i]) = MedicoVet
                  => RoleOf(funcionarios'[i]) = MedicoVet]_vars

\* C3: for a record whose role is one of the five staff roles, a PUT that
\* leaves a different role stored is Estagiario -> Vet junior or
\* Vet junior -> Medico vet; a PUT answered success: false leaves
\* funcionarios unchanged.
C3_OnlyPromotionsChangeRole ==
    [][IsAtualizar =>
          /\ \A i \in DOMAIN funcionarios :
                (/\ RoleOf(funcionarios[i]) \in StaffRoles
                 /\ RoleOf(funcionarios'[i]) # RoleOf(funcionarios[i]))
                    => <<RoleOf(funcionarios[i]), RoleOf(funcionarios'[i])>>
                          \in {<<Estagiario, VetJunior>>, <<VetJunior, MedicoVet>>}
          /\ (~resp'.success => funcionarios' = funcionarios)]_vars

\* C4: a record created as 'Estagiario' has role 'Medico vet' only if it had
\* role 'Vet junior' in an earlier state.
C4_NoDirectPromotion ==
    \A i \in DOMAIN funcionarios :
        (hist[i].estagiario /\ RoleOf(funcionarios[i]) = MedicoVet)
            => hist[i].wasVetJunior

\* C5: no staff record has role 'Estagiario' together with a non-null crmv.
C5_EstagiarioHasNoCrmv ==
    \A i \in DOMAIN funcionarios :
        ~(/\ RoleOf(funcionarios[i]) = Estagiario
          /\ Get(funcionarios[i], "crmv") \notin {NULL, UNDEF})

(***************************************************************************)
(* Staff deletion: up to MaxStaffDel records are registered and deleted.   *)
(***************************************************************************)
DelLogins == {"ana", "bia", "caio"}

DelCreateBodies ==
    {[nome |-> "Ana", contato |-> "11999990000", login |-> l, senha |-> "s3nh4",
      role |-> r] : l \in DelLogins, r \in {MedicoVet, Recepcao, Estagiario}}

NextDel ==
    \/ \E body \in DelCreateBodies, wok \in BOOLEAN :
          Len(funcionarios) < MaxStaffDel /\ CadastrarFuncionario(body, wok)
    \/ \E id \in Ids, wok \in BOOLEAN : DeletarFuncionario(id, wok)
    \/ Tick

SpecDel == Init /\ [][NextDel]_vars

\* after is before without the first record whose id is id, the others kept
\* in their order.
FirstMatchRemoved(before, after, id) ==
    \E k \in DOMAIN before :
        /\ Get(before[k], "id") = id
        /\ \A j \in 1..(k - 1) : Get(before[j], "id") # id
        /\ Len(after) = Len(before) - 1
        /\ \A j \in DOMAIN after : after[j] = IF j < k THEN before[j] ELSE before[j + 1]

HasId(list, id) == \E k \in DOMAIN list : Get(list[k], "id") = id

FirstWithId(list, id) ==
    CHOOSE k \in DOMAIN list :
        Get(list[k], "id") = id /\ \A j \in 1..(k - 1) : Get(list[j], "id") # id

\* C6 as claimed: a DELETE on a 'Medico vet' record is refused and changes
\* nothing; on any other existing record it removes exactly the first record
\* whose id matches.
C6_DeleteAsClaimed ==
    [][\A id \in Ids, wok \in BOOLEAN :
          (DeletarFuncionario(id, wok) /\ HasId(funcionarios, id)) =>
              IF RoleOf(funcionarios[FirstWithId(funcionarios, id)]) = MedicoVet
              THEN ~resp'.success /\ funcionarios' = funcionarios
              ELSE FirstMatchRemoved(funcionarios, funcionarios', id)]_vars

\* C6 amended: the removal happens when the write of funcionarios.json
\* succeeds; when it fails the answer is success: false and nothing changes.
C6_DeleteWhenWritten ==
    [][\A id \in Ids, wok \in BOOLEAN :
          (DeletarFuncionario(id, wok) /\ HasId(funcionarios, id)) =>
              IF RoleOf(funcionarios[FirstWithId(funcionarios, id)]) = MedicoVet \/ ~wok
              THEN ~resp'.success /\ funcionarios' = funcionarios
              ELSE /\ resp'.success
                   /\ FirstMatchRemoved(funcionarios, funcionarios', id)]_vars

\* A deletion succeeded and left two records behind, in some order.
C6_Witness ==
    /\ resp.op = "deletar-funcionario"
    /\ resp.success
    /\ Len(funcionarios) = 2

(***************************************************************************)
(* Login and registration of tutors and veterinarians.  Chars gives the    *)
(* characters of the strings the validations look into.                    *)
(***************************************************************************)
Digits == {"0", "1", "2", "3", "4", "5", "6", "7", "8", "9"}

Chars(s) ==
    CASE s = "12345678901" -> <<"1", "2", "3", "4", "5", "6", "7", "8", "9", "0", "1">>
      [] s = "98765432100" -> <<"9", "8", "7", "6", "5", "4", "3", "2", "1", "0", "0">>
      [] s = "1234567890" -> <<"1", "2", "3", "4", "5", "6", "7", "8", "9", "0">>
      [] s = "1234567890a" -> <<"1", "2", "3", "4", "5", "6", "7", "8", "9", "0", "a">>
      [] s = "11999990000" -> <<"1", "1", "9", "9", "9", "9", "9", "0", "0", "0", "0">>
      [] s = "1133334444" -> <<"1", "1", "3", "3", "3", "3", "4", "4", "4", "4">>
      [] s = "119999" -> <<"1", "1", "9", "9", "9", "9">>
      [] s = "segredo" -> <<"s", "e", "g", "r", "e", "d", "o">>
      [] s = "s3nh4" -> <<"s", "3", "n", "h", "4">>
      [] s = "123.456.789-01" ->
            <<"1", "2", "3", ".", "4", "5", "6", ".", "7", "8", "9", "-", "0", "1">>
      [] s = "11111111111" -> <<"1", "1", "1", "1", "1", "1", "1", "1", "1", "1", "1">>
      [] s = "CRMV1" -> <<"C", "R", "M", "V", "1">>
      [] s = "ab" -> <<"a", "b">>
      [] s = "" -> <<>>

AllDigits(cs) == \A i \in DOMAIN cs : cs[i] \in Digits

\* /^\d{11}$/.test(cpf)
validateCPF(cpf) == Len(Chars(cpf)) = 11 /\ AllDigits(Chars(cpf))

\* /^\d{10,11}$/.test(phone)
validatePhone(phone) == Len(Chars(phone)) \in 10..11 /\ AllDigits(Chars(phone))

\* senha.length < 6
SenhaCurta(senha) == Len(Chars(senha)) < 6

\* list.find(x => x.login === login), as an index; 0 when none.
FindLogin(list, login) == FindIndex(list, "login", login)

\* { ...u, tipo } without the senha: undefined that hides the password.
SafeUserLeak(u, tipo) == Spread(u, [tipo |-> tipo])

\* What the login response shows of a veterinarian or a tutor.
SafeUser(u, tipo) == Spread(u, [tipo |-> tipo, senha |-> UNDEF])

\* What the login response shows of a staff member.
SafeFuncionarioLogin(f) ==
    [id |-> Get(f, "id"), nome |-> Get(f, "nome"), login |-> Get(f, "login"),
     contato |-> Get(f, "contato"), role |-> Get(f, "role"), tipo |-> "funcionario"]

\* POST /api/login: the response.
LoginResponse(login, senha) ==
    LET op == "login"
        m == FindLogin(readJSON(medicos), login)
        t == FindLogin(readJSON(usuarios), login)
        f == FindLogin(readJSON(funcionarios), login)
    IN  IF Falsy(login) \/ Falsy(senha)
        THEN Response(op, FALSE, "Login e senha sao obrigatorios!", <<>>)
        ELSE IF m # 0 /\ senha = Get(medicos[m], "senha")
        THEN Response(op, TRUE, "", <<SafeUser(medicos[m], "medico")>>)
        ELSE IF t # 0 /\ senha = Get(usuarios[t], "senha")
        THEN Response(op, TRUE, "", <<SafeUser(usuarios[t], "tutor")>>)
        ELSE IF f # 0 /\ senha = Get(funcionarios[f], "senha")
        THEN Response(op, TRUE, "", <<SafeFuncionarioLogin(funcionarios[f])>>)
        ELSE Response(op, FALSE, "Usuario ou senha incorretos!", <<>>)

Login(login, senha) ==
    /\ resp' = LoginResponse(login, senha)
    /\ UNCHANGED <<funcionarios, medicos, usuarios, animais, now, logged, hist, inflight>>

\* The registration without its duplicate check.
CpfExistsUnchecked(lista, cpf) == FALSE

\* Is the CPF already registered?
CpfExists(lista, cpf) == FindIndex(lista, "cpf", cpf) # 0

NovoTutor(body) ==
    [nome |-> Get(body, "nome"), cpf |-> Get(body, "cpf"),
     telefone |-> Get(body, "telefone"), endereco |-> Get(body, "endereco"),
     login |-> Get(body, "cpf"), senha |-> Get(body, "senha")]

\* POST /api/cadastrar-tutor
CadastrarTutor(body, wok) ==
    LET op == "cadastrar-tutor"
        lista == readJSON(usuarios)
    IN  /\ UNCHANGED <<funcionarios, medicos, animais, now, logged, hist, inflight>>
        /\ IF \/ Falsy(Get(body, "nome")) \/ Falsy(Get(body, "cpf"))
              \/ Falsy(Get(body, "telefone")) \/ Falsy(Get(body, "endereco"))
              \/ Falsy(Get(body, "senha"))
           THEN /\ resp' = Response(op, FALSE, "Todos os campos sao obrigatorios!", <<>>)
                /\ UNCHANGED usuarios
           ELSE IF ~validateCPF(Get(body, "cpf"))
           THEN /\ resp' = Response(op, FALSE, "CPF invalido!", <<>>)
                /\ UNCHANGED usuarios
           ELSE IF ~validatePhone(Get(body, "telefone"))
           THEN /\ resp' = Response(op, FALSE, "Telefone invalido!", <<>>)
                /\ UNCHANGED usuarios
           ELSE IF SenhaCurta(Get(body, "senha"))
           THEN /\ resp' = Response(op, FALSE, "A senha deve ter pelo menos 6 caracteres!", <<>>)
                /\ UNCHANGED usuarios
           ELSE IF CpfExists(lista, Get(body, "cpf"))
           THEN /\ resp' = Response(op, FALSE, "CPF ja cadastrado!", <<>>)
                /\ UNCHANGED usuarios
           ELSE /\ usuarios' = writeJSON(usuarios, Append(lista, NovoTutor(body)), wok)
                /\ resp' = IF wok
                           THEN Response(op, TRUE, "Cadastro realizado com sucesso!", <<>>)
                           ELSE Response(op, FALSE, "Erro ao salvar dados", <<>>)

NovoMedico(body) ==
    [nome |-> Get(body, "nome"), login |-> Get(body, "login"),
     crmv |-> Get(body, "crmv"), contato |-> Get(body, "contato"),
     senha |-> Get(body, "senha")]

\* The registration of a veterinarian without its duplicate checks.
VetExistsUnchecked(lista, body) == ""

\* Is the login, or the CRMV, already registered among the veterinarians?
VetExists(lista, body) ==
    IF FindLogin(lista, Get(body, "login")) # 0 THEN "Login ja cadastrado!"
    ELSE IF FindIndex(lista, "crmv", Get(body, "crmv")) # 0 THEN "CRMV ja cadastrado!"
    ELSE ""

\* POST /api/cadastrar-vet
CadastrarVet(body, wok) ==
    LET op == "cadastrar-vet"
        lista == readJSON(medicos)
    IN  /\ UNCHANGED <<funcionarios, usuarios, animais, now, logged, hist, inflight>>
        /\ IF \/ Falsy(Get(body, "nome")) \/ Falsy(Get(body, "login"))
              \/ Falsy(Get(body, "crmv")) \/ Falsy(Get(body, "contato"))
              \/ Falsy(Get(body, "senha"))
           THEN /\ resp' = Response(op, FALSE, "Todos os campos sao obrigatorios!", <<>>)
                /\ UNCHANGED medicos
           ELSE IF SenhaCurta(Get(body, "senha"))
           THEN /\ resp' = Response(op, FALSE, "A senha deve ter pelo menos 6 caracteres!", <<>>)
                /\ UNCHANGED medicos
           ELSE IF ~validatePhone(Get(body, "contato"))
           THEN /\ resp' = Response(op, FALSE, "Telefone invalido!", <<>>)
                /\ UNCHANGED medicos
           ELSE IF VetExists(lista, body) # ""
           THEN /\ resp' = Response(op, FALSE, VetExists(lista, body), <<>>)
                /\ UNCHANGED medicos
           ELSE /\ medicos' = writeJSON(medicos, Append(lista, NovoMedico(body)), wok)
                /\ resp' = IF wok
                           THEN Response(op, TRUE, "Cadastro realizado com sucesso!", <<>>)
                           ELSE Response(op, FALSE, "Erro ao salvar dados", <<>>)

(***************************************************************************)
(* Authentication: the three registrations, the staff update of login and  *)
(* senha, the staff listing and the login.                                 *)
(***************************************************************************)
TutorBodies ==
    {[nome |-> "Tia", cpf |-> c, telefone |-> "11999990000", endereco |-> "Rua 1",
      senha |-> "segredo"] : c \in {"12345678901", "98765432100", "1234567890", "1234567890a"}}
    \cup {[nome |-> "Tia", cpf |-> "12345678901", telefone |-> "119999",
           endereco |-> "Rua 1", senha |-> "segredo"],
          [nome |-> "Tia", cpf |-> "12345678901", telefone |-> "1133334444",
           endereco |-> "Rua 1", senha |-> "s3nh4"],
          [nome |-> "Tia", cpf |-> "12345678901", telefone |-> "1133334444",
           senha |-> "segredo"]}

VetBodies ==
    {[nome |-> "Vera", login |-> l, crmv |-> c, contato |-> "11999990000",
      senha |-> "segredo"] : l \in Logins, c \in {"CRMV1", "CRMV2"}}
    \cup {[nome |-> "Vera", login |-> "ana", crmv |-> "CRMV1", contato |-> "119999",
           senha |-> "segredo"],
          [nome |-> "Vera", login |-> "ana", crmv |-> "CRMV1", contato |-> "11999990000",
           senha |-> "s3nh4"],
          [nome |-> "Vera", login |-> "ana", contato |-> "11999990000",
           senha |-> "segredo"]}

Senhas == {"segredo", "s3nh4"}

AuthStaffCreateBodies ==
    {[nome |-> "Ana", contato |-> "11999990000", login |-> l, senha |-> p,
      role |-> Recepcao] : l \in Logins, p \in Senhas}

\* Updates of login and senha.
AuthStaffUpdateBodies ==
    {[login |-> l] : l \in Logins} \cup {[senha |-> p] : p \in Senhas}
        \cup {[login |-> l, senha |-> p] : l \in Logins, p \in Senhas}

LoginNames == Logins \cup {"12345678901", ""}

NextAuth ==
    \/ \E login \in LoginNames, senha \in Senhas \cup {""} : Login(login, senha)
    \/ \E body \in TutorBodies, wok \in BOOLEAN :
          Len(usuarios) < MaxTutor /\ CadastrarTutor(body, wok)
    \/ \E body \in VetBodies, wok \in BOOLEAN :
          Len(medicos) < MaxVet /\ CadastrarVet(body, wok)
    \/ \E body \in AuthStaffCreateBodies, wok \in BOOLEAN :
          Len(funcionarios) < MaxStaff /\ CadastrarFuncionario(body, wok)
    \/ \E id \in Ids, body \in AuthStaffUpdateBodies, wok \in BOOLEAN :
          AtualizarFuncionario(id, body, wok)
    \/ ListarFuncionarios
    \/ Tick

SpecAuth == Init /\ [][NextAuth]_vars

(***************************************************************************)
(* Claims about authentication, under SpecAuth.                            *)
(***************************************************************************)
HasCredentials(list, login, senha) ==
    \E i \in DOMAIN list : Get(list[i], "login") = login /\ Get(list[i], "senha") = senha

\* C7: for a non-empty login and senha, POST /api/login answers success: true
\* if and only if some record of medicos, usuarios or funcionarios has that
\* login and that senha.
C7_LoginIffCredentials ==
    [][\A login \in LoginNames \ {""}, senha \in Senhas :
          Login(login, senha) =>
              (resp'.success <=> \/ HasCredentials(medicos, login, senha)
                                 \/ HasCredentials(usuarios, login, senha)
                                 \/ HasCredentials(funcionarios, login, senha))]_vars

\* The senha values that the records of a collection hold.
StoredSenhas(list) == {Get(list[i], "senha") : i \in DOMAIN list} \ {UNDEF}

\* C8: no response of the login, the staff registration, the staff listing or
\* the staff update shows the senha of a record.
C8_NoSenhaInResponse ==
    resp.op \in {"login", "cadastrar-funcionario", "listar-funcionarios",
                 "atualizar-funcionario"}
        => \A i \in DOMAIN resp.body :
              /\ "senha" \notin DOMAIN resp.body[i]
              /\ \A k \in DOMAIN resp.body[i] :
                    resp.body[i][k] \notin StoredSenhas(medicos)
                        \cup StoredSenhas(usuarios) \cup StoredSenhas(funcionarios)

\* A veterinarian, whose record holds a senha, has just logged in.
C8_Witness ==
    /\ resp.op = "login"
    /\ resp.success
    /\ Get(resp.body[1], "tipo") = "medico"
    /\ \E i \in DOMAIN medicos : Get(medicos[i], "senha") = "segredo"

\* C10: no two tutor records share a cpf, and every tutor's login is its cpf.
C10_TutorCpfUnique ==
    /\ \A i, j \in DOMAIN usuarios :
          Get(usuarios[i], "cpf") = Get(usuarios[j], "cpf") => i = j
    /\ \A i \in DOMAIN usuarios : Get(usuarios[i], "login") = Get(usuarios[i], "cpf")

\* Two tutors are registered, the second one just now.
C10_Witness ==
    /\ Len(usuarios) = 2
    /\ resp.op = "cadastrar-tutor"
    /\ resp.success

\* C11: no two veterinarian records share a login, and no two share a crmv.
C11_VetLoginCrmvUnique ==
    \A i, j \in DOMAIN medicos :
        (\/ Get(medicos[i], "login") = Get(medicos[j], "login")
         \/ Get(medicos[i], "crmv") = Get(medicos[j], "crmv")) => i = j

\* A veterinarian is registered, and a registration that repeats the crmv
\* under another login has just been refused.
C11_Witness ==
    /\ Len(medicos) = 1
    /\ resp.op = "cadastrar-vet"
    /\ resp.message = "CRMV ja cadastrado!"

\* C12: no two staff records share a login.
C12_StaffLoginUnique ==
    \A i, j \in DOMAIN funcionarios :
        Get(funcionarios[i], "login") = Get(funcionarios[j], "login") => i = j

(***************************************************************************)
(* Pets (animais.json) and their medical sub-records.  The requests of     *)
(* this part come from one client; logged is the tipo its last successful  *)
(* login returned ("" before any).  The server keeps no session and no     *)
(* handler reads it.                                                       *)
(***************************************************************************)
\* POST /api/login, answered to the client.
LoginAs(login, senha) ==
    /\ resp' = LoginResponse(login, senha)
    /\ logged' = IF resp'.success THEN Get(resp'.body[1], "tipo") ELSE logged
    /\ UNCHANGED <<funcionarios, medicos, usuarios, animais, now, hist, inflight>>

\* JSON null in a place that holds an object otherwise (anamnese).
NULLOBJ == [null |-> NULL]

\* { id: Date.now(), ...petData, tag: 'green', anamnese: null, observacoes: '' }
NovoPet(petData) ==
    Spread(Spread([id |-> DateNow], petData),
           [tag |-> "green", anamnese |-> NULLOBJ, observacoes |-> ""])

\* POST /api/salvar-pet
SalvarPet(petData, wok) ==
    LET op == "salvar-pet"
        lista == readJSON(animais)
    IN  /\ animais' = writeJSON(animais, Append(lista, NovoPet(petData)), wok)
        /\ resp' = IF wok THEN Response(op, TRUE, "", <<NovoPet(petData)>>)
                   ELSE Response(op, FALSE, "Erro ao salvar pet", <<>>)
        /\ UNCHANGED <<funcionarios, medicos, usuarios, now, logged, hist, inflight>>

\* new Date().toLocaleString('pt-BR')
Timestamp == DateNow

\* animais[petIndex] of the handler whose :id is id.
PetOf(id) == readJSON(animais)[FindIndex(readJSON(animais), "id", id)]

\* The body shared by the PUT handlers of a pet: find the pet by id, refuse
\* when there is none, else store the updated pet and write the file.
PetPut(op, id, updated, wok, done, failed) ==
    LET lista == readJSON(animais)
        petIndex == FindIndex(lista, "id", id)
    IN  /\ UNCHANGED <<funcionarios, medicos, usuarios, now, logged, hist, inflight>>
        /\ IF petIndex = 0
           THEN /\ resp' = Response(op, FALSE, "Pet nao encontrado", <<>>)
                /\ UNCHANGED animais
           ELSE /\ animais' = writeJSON(animais,
                                        [lista EXCEPT ![petIndex] = updated],
                                        wok)
                /\ resp' = IF wok THEN Response(op, TRUE, done, <<>>)
                           ELSE Response(op, FALSE, failed, <<>>)

\* pet.exames, or {} when the pet has none (the pets of the model hold an
\* object there or lack the key).
ExamesOf(pet) == IF "exames" \in DOMAIN pet THEN pet.exames ELSE EmptyObj

ConsultasOf(pet) == IF "consultas" \in DOMAIN pet THEN pet.consultas ELSE EmptyObj

\* PUT /api/salvar-anamnese/:id
ComAnamnese(pet, body) ==
    Spread(pet, [anamnese |-> Spread(body, [data |-> Timestamp])])

SalvarAnamnese(id, body, wok) ==
    PetPut("salvar-anamnese", id, ComAnamnese(PetOf(id), body), wok,
               "Anamnese salva com sucesso!", "Erro ao salvar anamnese")

\* PUT /api/salvar-historico-clinico/:id (an undefined historicoClinico is
\* assigned and then dropped when the file is written).
ComHistorico(pet, body) ==
    Spread(pet, [exames |->
        Stringify(Spread(ExamesOf(pet),
                         [historicoClinico |-> Get(body, "historicoClinico"),
                          dataHistorico |-> Timestamp]))])

SalvarHistoricoClinico(id, body, wok) ==
    PetPut("salvar-historico-clinico", id, ComHistorico(PetOf(id), body), wok,
               "Historico clinico salvo com sucesso!", "Erro ao salvar historico clinico")

\* PUT /api/salvar-vacinacao/:id
ComVacinacao(pet, body) ==
    Spread(pet, [exames |->
        Spread(Spread(ExamesOf(pet), body), [dataVacinacao |-> Timestamp])])

SalvarVacinacao(id, body, wok) ==
    PetPut("salvar-vacinacao", id, ComVacinacao(PetOf(id), body), wok,
               "Vacinacao salva com sucesso!", "Erro ao salvar vacinacao")

\* PUT /api/salvar-consultas/:id, the handler registered first.
ComConsultas(pet, body) ==
    Spread(pet, [consultas |->
        Spread(Spread(ConsultasOf(pet), body), [dataAtualizacao |-> Timestamp])])

SalvarConsultas(id, body, wok) ==
    PetPut("salvar-consultas", id, ComConsultas(PetOf(id), body), wok,
               "Consultas salvas com sucesso!", "Erro ao salvar consultas")

\* PUT /api/salvar-exames/:id
ComExames(pet, body) ==
    Spread(pet, [exames |->
        Spread(Spread(ExamesOf(pet), body), [dataExames |-> Timestamp])])

SalvarExames(id, body, wok) ==
    PetPut("salvar-exames", id, ComExames(PetOf(id), body), wok,
               "Exames salvos com sucesso!", "Erro ao salvar exames")

\* PUT /api/salvar-observacoes/:id, the handler registered first.
ComObservacoes(pet, body) ==
    Spread(pet, [observacoes |-> Get(body, "observacoes"),
                 dataObservacoes |-> Timestamp])

SalvarObservacoes(id, body, wok) ==
    PetPut("salvar-observacoes", id, ComObservacoes(PetOf(id), body), wok,
               "Observacoes salvas com sucesso!", "Erro ao salvar observacoes")

\* PUT /api/alterar-tag/:id
ComTag(pet, body) == Spread(pet, [tag |-> Get(body, "tag")])

AlterarTag(id, body, wok) ==
    PetPut("alterar-tag", id, ComTag(PetOf(id), body), wok,
           "Tag alterada com sucesso!", "Erro ao alterar tag")

\* PUT /api/atualizar-pet/:id: the pet merged with the body, answered back.
AtualizarPet(id, updateData, wok) ==
    LET op == "atualizar-pet"
        lista == readJSON(animais)
        petIndex == FindIndex(lista, "id", id)
        merged == Spread(lista[petIndex], updateData)
    IN  /\ UNCHANGED <<funcionarios, medicos, usuarios, now, logged, hist, inflight>>
        /\ IF petIndex = 0
           THEN /\ resp' = Response(op, FALSE, "Pet nao encontrado", <<>>)
                /\ UNCHANGED animais
           ELSE /\ animais' = writeJSON(animais, [lista EXCEPT ![petIndex] = merged], wok)
                /\ resp' = IF wok
                           THEN Response(op, TRUE, "Pet atualizado com sucesso!", <<merged>>)
                           ELSE Response(op, FALSE, "Erro ao salvar alteracoes", <<>>)

(***************************************************************************)
(* The pets specification: a veterinarian, a tutor and a staff member are  *)
(* registered; the client logs in, pets are registered and sub-records     *)
(* saved.                                                                  *)
(***************************************************************************)
InitPets ==
    /\ funcionarios = <<[id |-> "0", nome |-> "Ana", login |-> "ana",
                         contato |-> "11999990000", senha |-> "s3nh4",
                         role |-> Recepcao, crmv |-> NULL]>>
    /\ medicos = <<[nome |-> "Vera", login |-> "bia", crmv |-> "CRMV1",
                    contato |-> "11999990000", senha |-> "segredo"]>>
    /\ usuarios = <<[nome |-> "Tia", cpf |-> "12345678901", telefone |-> "11999990000",
                     endereco |-> "Rua 1", login |-> "12345678901",
                     senha |-> "segredo"]>>
    /\ animais = <<>>
    /\ now = 1
    /\ resp = Response("", FALSE, "", <<>>)
    /\ logged = ""
    /\ hist = <<[estagiario |-> FALSE, wasVetJunior |-> FALSE]>>
    /\ inflight = NoRequests

PetBodies == {[nome |-> "Rex", tutorCpf |-> "12345678901"]}

NextPets ==
    \/ \E login \in LoginNames, senha \in Senhas : LoginAs(login, senha)
    \/ \E body \in PetBodies, wok \in BOOLEAN :
          Len(animais) < MaxPets /\ SalvarPet(body, wok)
    \/ \E id \in Ids, wok \in BOOLEAN :
          SalvarAnamnese(id, [queixa |-> "tosse"], wok)
    \/ \E id \in Ids, wok \in BOOLEAN :
          SalvarHistoricoClinico(id, [historicoClinico |-> "alergia"], wok)
    \/ \E id \in Ids, wok \in BOOLEAN :
          SalvarVacinacao(id, [vacinas |-> "v10"], wok)
    \/ \E id \in Ids, wok \in BOOLEAN :
          SalvarConsultas(id, [consultasPassadas |-> "retorno"], wok)
    \/ \E id \in Ids, wok \in BOOLEAN :
          SalvarExames(id, [hemograma |-> "normal"], wok)
    \/ \E id \in Ids, wok \in BOOLEAN :
          SalvarObservacoes(id, [observacoes |-> "agitado"], wok)
    \/ Tick

SpecPets == InitPets /\ [][NextPets]_vars

\* The step is the handling of a PUT that saves a medical sub-record.
IsSubRecordPut ==
    resp'.op \in {"salvar-anamnese", "salvar-historico-clinico", "salvar-vacinacao",
                  "salvar-consultas", "salvar-exames", "salvar-observacoes"}

\* C1: a medical sub-record is written to a pet only when the client has
\* logged in as a veterinarian or a staff member; the PUT of a tutor or of a
\* client that never logged in leaves animais unchanged.
C1_SubRecordsNeedVetOrStaff ==
    [][(IsSubRecordPut /\ logged \notin {"medico", "funcionario"})
          => animais' = animais]_vars

(***************************************************************************)
(* The PUT requests on a pet, from any client: the six sub-record          *)
(* handlers, alterar-tag and atualizar-pet.                                *)
(***************************************************************************)
\* The bodies of the PUT requests on a pet.  A list of consultations is the
\* string the client sends for it.
AnamneseBodies == {[queixa |-> "tosse"]}

HistoricoBodies == {[historicoClinico |-> "alergia"], EmptyObj}

VacinacaoBodies == {[vacinas |-> "v10"]}

ConsultasBodies == {[consultasPassadas |-> "retorno"]}

ExamesBodies == {[hemograma |-> "normal"]}

ObservacoesBodies == {[observacoes |-> "agitado"]}

TagBodies == {[tag |-> "red"]}

AtualizarPetBodies == {[nome |-> "Max"]}

\* The :id of a request: the id of a pet, or "0", which no pet has.
PetIds == Ids \cup {"0"}

NextPetPuts ==
    \/ \E body \in PetBodies, wok \in BOOLEAN :
          Len(animais) < MaxPets /\ SalvarPet(body, wok)
    \/ \E id \in PetIds, body \in AnamneseBodies, wok \in BOOLEAN :
          SalvarAnamnese(id, body, wok)
    \/ \E id \in PetIds, body \in HistoricoBodies, wok \in BOOLEAN :
          SalvarHistoricoClinico(id, body, wok)
    \/ \E id \in PetIds, body \in VacinacaoBodies, wok \in BOOLEAN :
          SalvarVacinacao(id, body, wok)
    \/ \E id \in PetIds, body \in ConsultasBodies, wok \in BOOLEAN :
          SalvarConsultas(id, body, wok)
    \/ \E id \in PetIds, body \in ExamesBodies, wok \in BOOLEAN :
          SalvarExames(id, body, wok)
    \/ \E id \in PetIds, body \in ObservacoesBodies, wok \in BOOLEAN :
          SalvarObservacoes(id, body, wok)
    \/ \E id \in PetIds, body \in TagBodies, wok \in BOOLEAN :
          AlterarTag(id, body, wok)
    \/ \E id \in PetIds, body \in AtualizarPetBodies, wok \in BOOLEAN :
          AtualizarPet(id, body, wok)
    \/ Tick

SpecPetPuts == InitPets /\ [][NextPetPuts]_vars

\* No pet has this id.
NoPet(id) == \A i \in DOMAIN animais : Get(animais[i], "id") # id

\* The step handles one of the eight PUT requests on the pet id (the answer
\* names the route, which is tested first).
PetPutStep(id, wok) ==
    \/ /\ resp'.op = "salvar-anamnese"
       /\ \E body \in AnamneseBodies : SalvarAnamnese(id, body, wok)
    \/ /\ resp'.op = "salvar-historico-clinico"
       /\ \E body \in HistoricoBodies : SalvarHistoricoClinico(id, body, wok)
    \/ /\ resp'.op = "salvar-vacinacao"
       /\ \E body \in VacinacaoBodies : SalvarVacinacao(id, body, wok)
    \/ /\ resp'.op = "salvar-consultas"
       /\ \E body \in ConsultasBodies : SalvarConsultas(id, body, wok)
    \/ /\ resp'.op = "salvar-exames"
       /\ \E body \in ExamesBodies : SalvarExames(id, body, wok)
    \/ /\ resp'.op = "salvar-observacoes"
       /\ \E body \in ObservacoesBodies : SalvarObservacoes(id, body, wok)
    \/ /\ resp'.op = "alterar-tag"
       /\ \E body \in TagBodies : AlterarTag(id, body, wok)
    \/ /\ resp'.op = "atualizar-pet"
       /\ \E body \in AtualizarPetBodies : AtualizarPet(id, body, wok)

\* C14: a PUT on a pet whose id matches no pet is answered success: false
\* with 'Pet nao encontrado' and leaves animais unchanged.
C14_NoPetNoWrite ==
    [][\A id \in PetIds, wok \in BOOLEAN :
          (NoPet(id) /\ PetPutStep(id, wok))
              => /\ ~resp'.success
                 /\ resp'.message = "Pet nao encontrado"
                 /\ animais' = animais]_vars

\* A pet is stored and a PUT on another id has just been refused.
C14_Witness ==
    /\ Len(animais) = 1
    /\ resp.op = "atualizar-pet"
    /\ resp.message = "Pet nao encontrado"

\* consultasPassadas || []
EmptyList == "[]"

\* The pet with this id after the step.
PetAfter(id) == animais'[FindIndex(animais', "id", id)]

\* C15: a successful PUT /api/salvar-consultas/:id stores the request's
\* consultasPassadas and consultasFuturas as fields of the pet itself, each
\* an empty list when the request omits it.
C15_ConsultasStoredOnPet ==
    [][\A id \in PetIds, body \in ConsultasBodies :
          (SalvarConsultas(id, body, TRUE) /\ resp'.success)
              => /\ "consultasPassadas" \in DOMAIN PetAfter(id)
                 /\ PetAfter(id).consultasPassadas
                       = (IF "consultasPassadas" \in DOMAIN body
                          THEN body.consultasPassadas ELSE EmptyList)
                 /\ "consultasFuturas" \in DOMAIN PetAfter(id)
                 /\ PetAfter(id).consultasFuturas
                       = (IF "consultasFuturas" \in DOMAIN body
                          THEN body.consultasFuturas ELSE EmptyList)]_vars

\* Every key of the stored exames object that is neither in the body nor the
\* handler's date key is still there after the step, with its value.
ExamesKept(id, body, dateKey) ==
    \A k \in DOMAIN ExamesOf(PetOf(id)) \ (DOMAIN body \cup {dateKey}) :
        /\ k \in DOMAIN ExamesOf(PetAfter(id))
        /\ ExamesOf(PetAfter(id))[k] = ExamesOf(PetOf(id))[k]

\* C16: a successful salvar-exames, salvar-vacinacao or
\* salvar-historico-clinico keeps every key of the pet's exames object that
\* the body does not contain, apart from the handler's own date key.
C16_ExamesKeysKept ==
    [][\A id \in PetIds :
          /\ \A body \in ExamesBodies :
                (SalvarExames(id, body, TRUE) /\ resp'.success)
                    => ExamesKept(id, body, "dataExames")
          /\ \A body \in VacinacaoBodies :
                (SalvarVacinacao(id, body, TRUE) /\ resp'.success)
                    => ExamesKept(id, body, "dataVacinacao")
          /\ \A body \in HistoricoBodies :
                (SalvarHistoricoClinico(id, body, TRUE) /\ resp'.success)
                    => ExamesKept(id, body, "dataHistorico")]_vars

(***************************************************************************)
(* The mutating routes of the four collections in one specification: the   *)
(* three registrations, the staff update and deletion, salvar-pet and four *)
(* of the PUT routes on a pet (SpecPetPuts has all eight).  All requests   *)
(* arrive within one tick of the clock.                                    *)
(***************************************************************************)
WriteTutorBodies ==
    {[nome |-> "Lia", cpf |-> "98765432100", telefone |-> "11999990000",
      endereco |-> "Rua 2", senha |-> "segredo"]}

WriteVetBodies ==
    {[nome |-> "Vito", login |-> "ana", crmv |-> "CRMV2", contato |-> "11999990000",
      senha |-> "segredo"]}

WriteStaffBodies ==
    {[nome |-> "Bia", contato |-> "11999990000", login |-> "bia", senha |-> "segredo",
      role |-> Estagiario]}

WriteStaffUpdates == {[contato |-> "1133334444"]}

NextWrite ==
    \/ \E body \in WriteTutorBodies, wok \in BOOLEAN :
          Len(usuarios) < MaxTutor /\ CadastrarTutor(body, wok)
    \/ \E body \in WriteVetBodies, wok \in BOOLEAN :
          Len(medicos) < MaxVet /\ CadastrarVet(body, wok)
    \/ \E body \in WriteStaffBodies, wok \in BOOLEAN :
          Len(funcionarios) < MaxStaff /\ CadastrarFuncionario(body, wok)
    \/ \E id \in PetIds, body \in WriteStaffUpdates, wok \in BOOLEAN :
          AtualizarFuncionario(id, body, wok)
    \/ \E id \in PetIds, wok \in BOOLEAN : DeletarFuncionario(id, wok)
    \/ \E body \in PetBodies, wok \in BOOLEAN :
          Len(animais) < MaxPets /\ SalvarPet(body, wok)
    \/ \E id \in PetIds, body \in AnamneseBodies, wok \in BOOLEAN :
          SalvarAnamnese(id, body, wok)
    \/ \E id \in PetIds, body \in HistoricoBodies, wok \in BOOLEAN :
          SalvarHistoricoClinico(id, body, wok)
    \/ \E id \in PetIds, body \in TagBodies, wok \in BOOLEAN :
          AlterarTag(id, body, wok)
    \/ \E id \in PetIds, body \in AtualizarPetBodies, wok \in BOOLEAN :
          AtualizarPet(id, body, wok)

SpecWrite == InitPets /\ [][NextWrite]_vars

\* The step handles a request that registers or deletes a record or updates
\* a staff record (the answer names the route, which is tested first).
RecordStep(wok) ==
    \/ /\ resp'.op = "cadastrar-tutor"
       /\ \E body \in WriteTutorBodies : CadastrarTutor(body, wok)
    \/ /\ resp'.op = "cadastrar-vet"
       /\ \E body \in WriteVetBodies : CadastrarVet(body, wok)
    \/ /\ resp'.op = "cadastrar-funcionario"
       /\ \E body \in WriteStaffBodies : CadastrarFuncionario(body, wok)
    \/ /\ resp'.op = "atualizar-funcionario"
       /\ \E id \in PetIds, body \in WriteStaffUpdates : AtualizarFuncionario(id, body, wok)
    \/ /\ resp'.op = "deletar-funcionario"
       /\ \E id \in PetIds : DeletarFuncionario(id, wok)
    \/ /\ resp'.op = "salvar-pet"
       /\ \E body \in PetBodies : SalvarPet(body, wok)

\* The step handles a mutating request whose write, if it comes to one, has
\* the outcome wok.
MutatingStep(wok) == RecordStep(wok) \/ \E id \in PetIds : PetPutStep(id, wok)

\* Every key of the body is in the object, with the body's value.
Contains(obj, body) == \A k \in DOMAIN body : k \in DOMAIN obj /\ obj[k] = body[k]

\* The list after the step is the list before it plus one record that holds
\* the body.
Appended(before, after, body) ==
    /\ Len(after) = Len(before) + 1
    /\ SubSeq(after, 1, Len(before)) = before
    /\ Contains(after[Len(after)], body)

\* The step is a request answered success: true and the stored collection
\* does not hold its change.
SuccessWithoutChange ==
    /\ resp'.success
    /\ \/ \E body \in WriteTutorBodies :
             CadastrarTutor(body, TRUE) /\ ~Appended(usuarios, usuarios', body)
       \/ \E body \in WriteVetBodies :
             CadastrarVet(body, TRUE) /\ ~Appended(medicos, medicos', body)
       \/ \E body \in WriteStaffBodies :
             CadastrarFuncionario(body, TRUE) /\ ~Appended(funcionarios, funcionarios', body)
       \/ \E body \in PetBodies :
             SalvarPet(body, TRUE) /\ ~Appended(animais, animais', body)
       \/ \E id \in PetIds, body \in WriteStaffUpdates :
             /\ AtualizarFuncionario(id, body, TRUE)
             /\ ~Contains(funcionarios'[FindIndex(funcionarios', "id", id)], body)
       \/ \E id \in PetIds :
             /\ DeletarFuncionario(id, TRUE)
             /\ ~FirstMatchRemoved(funcionarios, funcionarios', id)
       \/ \E id \in PetIds, body \in AnamneseBodies :
             SalvarAnamnese(id, body, TRUE) /\ ~Contains(PetAfter(id).anamnese, body)
       \/ \E id \in PetIds, body \in HistoricoBodies :
             /\ SalvarHistoricoClinico(id, body, TRUE)
             /\ Get(ExamesOf(PetAfter(id)), "historicoClinico") # Get(body, "historicoClinico")
       \/ \E id \in PetIds, body \in VacinacaoBodies :
             SalvarVacinacao(id, body, TRUE) /\ ~Contains(ExamesOf(PetAfter(id)), body)
       \/ \E id \in PetIds, body \in ExamesBodies :
             SalvarExames(id, body, TRUE) /\ ~Contains(ExamesOf(PetAfter(id)), body)
       \/ \E id \in PetIds, body \in ConsultasBodies :
             SalvarConsultas(id, body, TRUE) /\ ~Contains(ConsultasOf(PetAfter(id)), body)
       \/ \E id \in PetIds, body \in ObservacoesBodies :
             SalvarObservacoes(id, body, TRUE) /\ ~Contains(PetAfter(id), body)
       \/ \E id \in PetIds, body \in TagBodies :
             AlterarTag(id, body, TRUE) /\ ~Contains(PetAfter(id), body)
       \/ \E id \in PetIds, body \in AtualizarPetBodies :
             AtualizarPet(id, body, TRUE) /\ ~Contains(PetAfter(id), body)

ConcOps == {"salvar-anamnese", "alterar-tag", "atualizar-pet"}

ConcBodies(op) ==
    CASE op = "salvar-anamnese" -> AnamneseBodies
      [] op = "alterar-tag" -> TagBodies
      [] op = "atualizar-pet" -> AtualizarPetBodies

\* The pet as the handler of the route leaves it before the write.
ConcUpdate(op, pet, body) ==
    CASE op = "salvar-anamnese" -> ComAnamnese(pet, body)
      [] op = "alterar-tag" -> ComTag(pet, body)
      [] op = "atualizar-pet" -> Spread(pet, body)

ConcDone(op) ==
    CASE op = "salvar-anamnese" -> "Anamnese salva com sucesso!"
      [] op = "alterar-tag" -> "Tag alterada com sucesso!"
      [] op = "atualizar-pet" -> "Pet atualizado com sucesso!"

ConcFailed(op) ==
    CASE op = "salvar-anamnese" -> "Erro ao salvar anamnese"
      [] op = "alterar-tag" -> "Erro ao alterar tag"
      [] op = "atualizar-pet" -> "Erro ao salvar alteracoes"

\* The request arrives and readJSON returns: the handler answers at once
\* when no pet has the id, else it changes the list it read.
ReadStep(c, op, id, body) ==
    LET lista == readJSON(animais)
        petIndex == FindIndex(lista, "id", id)
        req == [pc |-> "read", op |-> op, id |-> id, body |-> body, data |-> <<>>,
                success |-> FALSE]
    IN  /\ inflight[c].pc = "idle"
        /\ IF petIndex = 0
           THEN /\ inflight' = [inflight EXCEPT ![c] = [req EXCEPT !.pc = "done"]]
                /\ resp' = Response(op, FALSE, "Pet nao encontrado", <<>>)
           ELSE /\ inflight' = [inflight EXCEPT ![c] =
                                   [req EXCEPT !.data =
                                       [lista EXCEPT ![petIndex] =
                                           ConcUpdate(op, lista[petIndex], body)]]]
                /\ UNCHANGED resp
        /\ UNCHANGED <<funcionarios, medicos, usuarios, animais, now, logged, hist>>

\* writeJSON returns and the handler answers.
WriteStep(c, wok) ==
    LET req == inflight[c]
    IN  /\ req.pc = "read"
        /\ animais' = writeJSON(animais, req.data, wok)
        /\ inflight' = [inflight EXCEPT ![c] = [req EXCEPT !.pc = "done", !.success = wok]]
        /\ resp' = IF wok
                   THEN Response(req.op, TRUE, ConcDone(req.op),
                                 IF req.op = "atualizar-pet"
                                 THEN <<req.data[FindIndex(req.data, "id", req.id)]>>
                                 ELSE <<>>)
                   ELSE Response(req.op, FALSE, ConcFailed(req.op), <<>>)
        /\ UNCHANGED <<funcionarios, medicos, usuarios, now, logged, hist>>

\* One pet is stored.
InitConc ==
    /\ funcionarios = <<>>
    /\ medicos = <<>>
    /\ usuarios = <<>>
    /\ animais = <<[id |-> "1", nome |-> "Rex", tutorCpf |-> "12345678901",
                    tag |-> "green", anamnese |-> NULLOBJ, observacoes |-> ""]>>
    /\ now = 1
    /\ resp = Response("", FALSE, "", <<>>)
    /\ logged = ""
    /\ hist = <<>>
    /\ inflight = NoRequests

NextConc ==
    \/ \E c \in Clients, op \in ConcOps, id \in PetIds :
          \E body \in ConcBodies(op) : ReadStep(c, op, id, body)
    \/ \E c \in Clients, wok \in BOOLEAN : WriteStep(c, wok)
    \/ Tick

SpecConc == InitConc /\ [][NextConc]_vars

\* The stored pet holds the change of the request of client c.
Reflected(c) ==
    LET req == inflight[c]
        pet == animais[FindIndex(animais, "id", req.id)]
    IN  IF req.op = "salvar-anamnese" THEN Contains(pet.anamnese, req.body)
        ELSE Contains(pet, req.body)

\* C17: once both requests have finished, the stored collection holds the
\* change of every request that was answered success: true.
C17_SuccessReflected ==
    (\A c \in Clients : inflight[c].pc = "done")
        => \A c \in Clients : inflight[c].success => Reflected(c)

(***************************************************************************)
(* The hardened server (the second program of part_000): bcrypt hashes,    *)
(* sanitised input, the same files.  medicos.json and usuarios.json may    *)
(* hold records written by the first server, with the senha in plain text. *)
(***************************************************************************)
\* str.trim() for the strings of the model.
Trim(str) ==
    CASE str = " ana " -> "ana"
      [] str = "  " -> ""
      [] OTHER -> str

\* sanitizeString: trimmed and cut to 255 characters (no string of the model
\* is that long).
sanitizeString(str) == IF Falsy(str) THEN "" ELSE Trim(str)

OnlyDigits(cs) == SelectSeq(cs, LAMBDA c : c \in Digits)

\* validateCPF of the hardened server: 11 digits once the formatting is
\* removed, not all the same digit.
validateCPFv2(cpf) ==
    LET cleanCPF == OnlyDigits(Chars(cpf))
    IN  /\ Truthy(cpf)
        /\ Len(cleanCPF) = 11
        /\ ~(\A i \in DOMAIN cleanCPF : cleanCPF[i] = cleanCPF[1])

validatePhoneV2(phone) ==
    Truthy(phone) /\ Len(OnlyDigits(Chars(phone))) \in 10..11

validateCRMV(crmv) == Truthy(crmv) /\ Len(Chars(Trim(crmv))) >= 3

\* bcrypt.hash draws a salt; the hash is a string that starts with $2b$.
Salts == {"a", "b"}

hashPassword(password, salt) ==
    CASE password = "segredo" /\ salt = "a" -> "$2b$a$segredo"
      [] password = "segredo" /\ salt = "b" -> "$2b$b$segredo"
      [] password = "s3nh4" /\ salt = "a" -> "$2b$a$s3nh4"
      [] password = "s3nh4" /\ salt = "b" -> "$2b$b$s3nh4"

Hashes == {hashPassword(p, salt) : p \in Senhas, salt \in Salts}

\* senha.startsWith('$2b$')
IsHash(senha) == senha \in Hashes

\* bcrypt.compare
verifyPassword(password, hashedPassword) ==
    \E salt \in Salts : hashPassword(password, salt) = hashedPassword

\* validateRequired(fields): the fields missing or blank.
Missing(body, fields) ==
    {f \in fields : Falsy(Get(body, f)) \/ Trim(Get(body, f)) = ""}

\* GET /api/medicos: the file as it is.
ListarMedicos ==
    /\ resp' = Response("medicos", TRUE, "", readJSON(medicos))
    /\ UNCHANGED <<funcionarios, medicos, usuarios, animais, now, logged, hist, inflight>>

NovoMedicoV2(d, senhaHash) ==
    [id |-> DateNow, nome |-> d.nome, login |-> d.login, crmv |-> d.crmv,
     contato |-> d.contato, senha |-> senhaHash, dataCadastro |-> DateNow,
     ativo |-> "true"]

\* POST /api/cadastrar-medico
CadastrarMedico(body, salt, wok) ==
    LET op == "cadastrar-medico"
        d == [nome |-> sanitizeString(Get(body, "nome")),
              login |-> sanitizeString(Get(body, "login")),
              crmv |-> sanitizeString(Get(body, "crmv")),
              contato |-> sanitizeString(Get(body, "contato")),
              senha |-> Get(body, "senha")]
        lista == readJSON(medicos)
        novo == NovoMedicoV2(d, hashPassword(d.senha, salt))
    IN  /\ UNCHANGED <<funcionarios, usuarios, animais, now, logged, hist, inflight>>
        /\ IF Missing(body, {"nome", "login", "crmv", "contato", "senha"}) # {}
           THEN /\ resp' = Response(op, FALSE, "Campos obrigatorios nao preenchidos", <<>>)
                /\ UNCHANGED medicos
           ELSE IF SenhaCurta(d.senha)
           THEN /\ resp' = Response(op, FALSE, "A senha deve ter pelo menos 6 caracteres!", <<>>)
                /\ UNCHANGED medicos
           ELSE IF ~validateCRMV(d.crmv)
           THEN /\ resp' = Response(op, FALSE, "CRMV invalido!", <<>>)
                /\ UNCHANGED medicos
           ELSE IF ~validatePhoneV2(d.contato)
           THEN /\ resp' = Response(op, FALSE, "Telefone invalido!", <<>>)
                /\ UNCHANGED medicos
           ELSE IF VetExists(lista, d) # ""
           THEN /\ resp' = Response(op, FALSE, VetExists(lista, d), <<>>)
                /\ UNCHANGED medicos
           ELSE /\ medicos' = writeJSON(medicos, Append(lista, novo), wok)
                /\ resp' = IF wok
                           THEN Response(op, TRUE, "Medico cadastrado com sucesso!",
                                         <<Spread(novo, [senha |-> UNDEF])>>)
                           ELSE Response(op, FALSE, "Erro ao salvar dados", <<>>)

NovoTutorV2(d, senhaHash) ==
    [id |-> DateNow, nome |-> d.nome, cpf |-> d.cpf, telefone |-> d.telefone,
     endereco |-> d.endereco, login |-> d.cpf, senha |-> senhaHash,
     dataCadastro |-> DateNow, ativo |-> "true"]

\* POST /api/cadastrar-tutor of the hardened server
CadastrarTutorV2(body, salt, wok) ==
    LET op == "cadastrar-tutor"
        d == [nome |-> sanitizeString(Get(body, "nome")),
              cpf |-> sanitizeString(Get(body, "cpf")),
              telefone |-> sanitizeString(Get(body, "telefone")),
              endereco |-> sanitizeString(Get(body, "endereco")),
              senha |-> Get(body, "senha")]
        lista == readJSON(usuarios)
        novo == NovoTutorV2(d, hashPassword(d.senha, salt))
    IN  /\ UNCHANGED <<funcionarios, medicos, animais, now, logged, hist, inflight>>
        /\ IF Missing(body, {"nome", "cpf", "telefone", "endereco", "senha"}) # {}
           THEN /\ resp' = Response(op, FALSE, "Campos obrigatorios nao preenchidos", <<>>)
                /\ UNCHANGED usuarios
           ELSE IF ~validateCPFv2(d.cpf)
           THEN /\ resp' = Response(op, FALSE, "CPF invalido!", <<>>)
                /\ UNCHANGED usuarios
           ELSE IF ~validatePhoneV2(d.telefone)
           THEN /\ resp' = Response(op, FALSE, "Telefone invalido!", <<>>)
                /\ UNCHANGED usuarios
           ELSE IF SenhaCurta(d.senha)
           THEN /\ resp' = Response(op, FALSE, "A senha deve ter pelo menos 6 caracteres!", <<>>)
                /\ UNCHANGED usuarios
           ELSE IF CpfExists(lista, d.cpf)
           THEN /\ resp' = Response(op, FALSE, "CPF ja cadastrado!", <<>>)
                /\ UNCHANGED usuarios
           ELSE /\ usuarios' = writeJSON(usuarios, Append(lista, novo), wok)
                /\ resp' = IF wok
                           THEN Response(op, TRUE, "Cadastro realizado com sucesso!",
                                         <<Spread(novo, [senha |-> UNDEF])>>)
                           ELSE Response(op, FALSE, "Erro ao salvar dados", <<>>)

\* list.find(x => x.login === login && x.ativo !== false), as an index.
FindAtivo(list, login) ==
    IF \E i \in DOMAIN list : Get(list[i], "login") = login /\ Get(list[i], "ativo") # "false"
    THEN CHOOSE i \in DOMAIN list :
            /\ Get(list[i], "login") = login /\ Get(list[i], "ativo") # "false"
            /\ \A j \in 1..(i - 1) :
                  ~(Get(list[j], "login") = login /\ Get(list[j], "ativo") # "false")
    ELSE 0

\* Is the senha of the request the one of the record (a hash, or plain text
\* in a record of the first server)?
SenhaValida(u, senha) ==
    IF IsHash(Get(u, "senha")) THEN verifyPassword(senha, Get(u, "senha"))
    ELSE senha = Get(u, "senha")

\* The record found, its plain-text senha replaced by a hash after a good login.
Rehashed(list, i, senha, salt) ==
    [list EXCEPT ![i] = Spread(list[i], [senha |-> hashPassword(senha, salt)])]

\* POST /api/login of the hardened server
LoginV2(body, salt, wok) ==
    LET op == "login"
        loginLimpo == sanitizeString(Get(body, "login"))
        senhaLimpa == Get(body, "senha")
        m == FindAtivo(readJSON(medicos), loginLimpo)
        t == FindAtivo(readJSON(usuarios), loginLimpo)
        medicoOk == m # 0 /\ SenhaValida(medicos[m], senhaLimpa)
        tutorOk == t # 0 /\ SenhaValida(usuarios[t], senhaLimpa)
    IN  /\ UNCHANGED <<funcionarios, animais, now, logged, hist, inflight>>
        /\ IF Missing(body, {"login", "senha"}) # {}
           THEN /\ resp' = Response(op, FALSE, "Campos obrigatorios nao preenchidos", <<>>)
                /\ UNCHANGED <<medicos, usuarios>>
           ELSE IF medicoOk
           THEN /\ medicos' = IF IsHash(Get(medicos[m], "senha")) THEN medicos
                              ELSE writeJSON(medicos, Rehashed(medicos, m, senhaLimpa, salt), wok)
                /\ UNCHANGED usuarios
                /\ resp' = Response(op, TRUE, "",
                                    <<[id |-> Get(medicos[m], "id"), nome |-> Get(medicos[m], "nome"),
                                       login |-> Get(medicos[m], "login"),
                                       crmv |-> Get(medicos[m], "crmv"),
                                       contato |-> Get(medicos[m], "contato"),
                                       tipo |-> "medico"]>>)
           ELSE IF tutorOk
           THEN /\ usuarios' = IF IsHash(Get(usuarios[t], "senha")) THEN usuarios
                               ELSE writeJSON(usuarios, Rehashed(usuarios, t, senhaLimpa, salt), wok)
                /\ UNCHANGED medicos
                /\ resp' = Response(op, TRUE, "",
                                    <<[id |-> IF Truthy(Get(usuarios[t], "id"))
                                              THEN Get(usuarios[t], "id")
                                              ELSE Get(usuarios[t], "cpf"),
                                       nome |-> Get(usuarios[t], "nome"),
                                       cpf |-> Get(usuarios[t], "cpf"),
                                       telefone |-> Get(usuarios[t], "telefone"),
                                       endereco |-> Get(usuarios[t], "endereco"),
                                       tipo |-> "tutor"]>>)
           ELSE /\ resp' = Response(op, FALSE, "Usuario ou senha incorretos!", <<>>)
                /\ UNCHANGED <<medicos, usuarios>>
(***************************************************************************)
(* The hardened server as a state machine.                                 *)
(***************************************************************************)
\* Records that the first server wrote: no id, the senha in plain text.
LegacyMedico ==
    [nome |-> "Bia", login |-> "bia", crmv |-> "CRMV2", contato |-> "1133334444",
     senha |-> "segredo"]

LegacyTutor ==
    [nome |-> "Tia", cpf |-> "98765432100", telefone |-> "1133334444",
     endereco |-> "Rua 1", login |-> "98765432100", senha |-> "segredo"]

InitHard ==
    /\ funcionarios = <<>>
    /\ medicos \in {<<>>, <<LegacyMedico>>}
    /\ usuarios \in {<<>>, <<LegacyTutor>>}
    /\ animais = <<>>
    /\ now = 1
    /\ resp = Response("", FALSE, "", <<>>)
    /\ logged = ""
    /\ hist = <<>>
    /\ inflight = NoRequests

MedicoBodiesV2 ==
    {[nome |-> "Vera", login |-> l, crmv |-> c, contato |-> "11999990000",
      senha |-> "segredo"] : l \in {"ana", " ana ", "bia"}, c \in {"CRMV1", "ab"}}
    \cup {[nome |-> "Vera", login |-> "ana", crmv |-> "CRMV1", contato |-> "119999",
           senha |-> "segredo"],
          [nome |-> "Vera", login |-> "ana", crmv |-> "CRMV1", contato |-> "11999990000",
           senha |-> "s3nh4"],
          [nome |-> "Vera", login |-> "  ", crmv |-> "CRMV1", contato |-> "11999990000",
           senha |-> "segredo"]}

TutorBodiesV2 ==
    {[nome |-> "Tia", cpf |-> c, telefone |-> "11999990000", endereco |-> "Rua 1",
      senha |-> "segredo"] : c \in {"12345678901", "123.456.789-01", "11111111111"}}
    \cup {[nome |-> "Tia", cpf |-> "12345678901", telefone |-> "119999",
           endereco |-> "Rua 1", senha |-> "segredo"],
          [nome |-> "Tia", cpf |-> "12345678901", telefone |-> "1133334444",
           endereco |-> "Rua 1", senha |-> "s3nh4"],
          [nome |-> "Tia", cpf |-> "12345678901", telefone |-> "1133334444",
           senha |-> "segredo"]}

LoginBodiesV2 ==
    {[login |-> l, senha |-> p] :
        l \in {"ana", " ana ", "bia", "12345678901", "98765432100"}, p \in Senhas}
    \cup {[login |-> "ana"]}

NextHard ==
    \/ ListarMedicos
    \/ \E body \in MedicoBodiesV2, salt \in Salts, wok \in BOOLEAN :
          Len(medicos) < MaxVet /\ CadastrarMedico(body, salt, wok)
    \/ \E body \in TutorBodiesV2, salt \in Salts, wok \in BOOLEAN :
          Len(usuarios) < MaxTutor /\ CadastrarTutorV2(body, salt, wok)
    \/ \E body \in LoginBodiesV2, salt \in Salts, wok \in BOOLEAN :
          LoginV2(body, salt, wok)
    \/ Tick

SpecHard == InitHard /\ [][NextHard]_vars

\* C9: in the hardened server, no response body of any route holds the stored
\* senha (hash or plain text) of a medico or tutor record.
C9_NoStoredSenhaInResponse ==
    \A i \in DOMAIN resp.body : \A k \in DOMAIN resp.body[i] :
        resp.body[i][k] \notin StoredSenhas(medicos) \cup StoredSenhas(usuarios)

=============================================================================
